---- MODULE Spec2Model ----
(***************************************************************************)
(* Model of src/doj_research_agent/evaluation/langfuse_integration.py:     *)
(* the LangfuseTracer reporter (constructor, trace_evaluation_run,         *)
(* trace_single_case_evaluation, close), the convenience function          *)
(* trace_evaluation, and the process-wide accessor get_langfuse_tracer /   *)
(* set_langfuse_tracer, single-threaded and under thread interleaving.     *)
(*                                                                         *)
(* The backend client is an external collaborator: each of its calls       *)
(* either returns or raises an Exception, chosen by the environment        *)
(* (the fault set `faults` of an operation).  Comments and metadata        *)
(* payloads of the calls never influence control flow and are left out of  *)
(* the recorded events; names, values and trace ids are recorded.          *)
(***************************************************************************)
EXTENDS Integers, Sequences, FiniteSets, TLC

\* ------------------------------------------------------------------ bounds
MaxResults == 3     \* longest evaluation_result.detailed_results
MaxCases   == 5     \* longest test_cases
MaxRagas   == 2     \* most entries of evaluation_result.ragas_scores
MaxFaults  == 2     \* most backend calls that raise within one operation
MaxCreated == 3     \* most tracers the accessor constructs lazily
MaxCalls   == 2     \* most get_langfuse_tracer calls per thread
NThreads   == 2     \* threads calling get_langfuse_tracer

\* ------------------------------------------------------- Python primitives
\* Optional[T]: None is the empty tuple, a value x is <<x>>.
None == <<>>
Some(x) == <<x>>
IsNone(o) == Len(o) = 0

Min(a, b) == IF a <= b THEN a ELSE b

\* A str is a sequence of characters where its content is inspected.
UpperChars == <<"A","B","C","D","E","F","G","H","I","J","K","L","M",
                "N","O","P","Q","R","S","T","U","V","W","X","Y","Z">>
LowerChars == <<"a","b","c","d","e","f","g","h","i","j","k","l","m",
                "n","o","p","q","r","s","t","u","v","w","x","y","z">>

LowerChar(c) ==
    IF \E i \in DOMAIN UpperChars : UpperChars[i] = c
    THEN LowerChars[CHOOSE i \in DOMAIN UpperChars : UpperChars[i] = c]
    ELSE c

\* str.lower()
Lower(s) == [i \in DOMAIN s |-> LowerChar(s[i])]

\* dict.get(key, default) on a dict modelled as a function
DictGet(d, k, default) == IF k \in DOMAIN d THEN d[k] ELSE default

\* zip(a, b): pairs up to the shorter sequence
Zip(a, b) == [i \in 1..Min(Len(a), Len(b)) |-> <<a[i], b[i]>>]

\* Python's class hierarchy for the value types that occur: bool is a
\* subclass of int.
Mro(type) == IF type = "bool" THEN {"bool", "int"} ELSE {type}

\* isinstance(v, types)
IsInstance(v, types) == Mro(v.type) \cap types # {}

\* float(v): numbers are rationals <<numerator, denominator>>
Float(v) == v.v

\* ------------------------------------------------- execution with raises
\* The running state of one operation: the backend calls made so far, the
\* log records written so far, and whether an exception is propagating.
NewSt == [calls |-> <<>>, logs |-> <<>>, exc |-> FALSE]

NoName == [base |-> "", idx |-> 0, key |-> 0]
Name(base, idx, key) == [base |-> base, idx |-> idx, key |-> key]
NoValue == <<0, 0>>

Occurrences(st, call) ==
    Cardinality({i \in DOMAIN st.calls : st.calls[i].call = call})

\* One statement that calls the backend: skipped while an exception
\* propagates; raises when the environment's fault set names this
\* occurrence of the call.
Do(st, call, name, value, trace, faults) ==
    IF st.exc THEN st
    ELSE LET r == [call |-> call, n |-> Occurrences(st, call) + 1] \in faults
         IN [st EXCEPT !.calls = Append(@, [call |-> call, name |-> name,
                                            value |-> value, trace |-> trace,
                                            raised |-> r]),
                       !.exc = r]

\* logger.<level>(msg)
Log(st, level, msg) ==
    [st EXCEPT !.logs = Append(@, [level |-> level, msg |-> msg])]

\* variant of the handler: no except clause, the exception goes on
NoCatch(st, msg) == st

\* variant of the handler: the exception is swallowed without a log record
CatchSilently(st, msg) == [st EXCEPT !.exc = FALSE]

\* except Exception as e: logger.error(f"<msg>: {e}")
Catch(st, msg) ==
    IF st.exc THEN Log([st EXCEPT !.exc = FALSE], "error", msg) ELSE st

\* leaving the `with ... as span` block: the span is closed on both the
\* normal and the exceptional exit, and the exception keeps propagating.
ExitSpan(st) ==
    [st EXCEPT !.calls = Append(@, [call |-> "span.__exit__", name |-> NoName,
                                    value |-> NoValue, trace |-> "",
                                    raised |-> FALSE])]

\* ------------------------------------------------------------ constructor
DEFAULT_HOST == "https://us.cloud.langfuse.com"
TrueStr == <<"t","r","u","e">>

\* os.getenv(key, default)
Getenv(env, key, default) == IF IsNone(env[key]) THEN default ELSE env[key][1]

\* truthiness of an Optional[str]: None and "" are falsy
Truthy(o) == ~IsNone(o) /\ o[1] # ""

\* a or b
PyOr(a, b) == IF Truthy(a) THEN a ELSE b

\* lines 51-52: the requested flag is the parameter, else the environment
\* variable compared case-insensitively with "true", else true
Requested(p, env) ==
    IF IsNone(p.enabled)
    THEN Lower(Getenv(env, "ENABLE_LANGFUSE_TRACING", TrueStr)) = TrueStr
    ELSE p.enabled[1]

\* variant of line 65 with `and` in place of `or`
CredentialsMissingBoth(pk, sk) == ~Truthy(pk) /\ ~Truthy(sk)

\* line 65: not self.public_key or not self.secret_key
CredentialsMissing(pk, sk) == ~Truthy(pk) \/ ~Truthy(sk)

\* LangfuseTracer.__init__: the attributes it leaves on the instance, what
\* it called, what it logged, and whether an exception left the constructor.
LangfuseTracer_init(available, p, env, faults) ==
    LET enabled0 == Requested(p, env) /\ available
        pk   == PyOr(p.public_key, env["LANGFUSE_PUBLIC_KEY"])
        sk   == PyOr(p.secret_key, env["LANGFUSE_SECRET_KEY"])
        host == PyOr(p.host, Some(Getenv(env, "LANGFUSE_HOST", DEFAULT_HOST)))
        s1 == Do(NewSt, "os.environ.__setitem__",
                 Name("LANGFUSE_PUBLIC_KEY", 0, 0), NoValue, "", faults)
        s2 == Do(s1, "os.environ.__setitem__",
                 Name("LANGFUSE_SECRET_KEY", 0, 0), NoValue, "", faults)
        s3 == Do(s2, "os.environ.__setitem__",
                 Name("LANGFUSE_HOST", 0, 0), NoValue, "", faults)
        s4 == Do(s3, "langfuse.get_client", NoName, NoValue, "", faults)
        s5 == IF s4.exc THEN s4
              ELSE Log(s4, "info", "Langfuse client initialized successfully")
        s6 == Catch(s5, "Failed to initialize Langfuse client")
    IN  IF ~enabled0
        THEN [enabled |-> FALSE, hasClient |-> FALSE, lookedUp |-> FALSE,
              public_key |-> None, secret_key |-> None, host |-> None,
              st |-> Log(NewSt, "info",
                         "Langfuse tracing disabled or not available")]
        ELSE IF CredentialsMissing(pk, sk)
        THEN [enabled |-> FALSE, hasClient |-> FALSE, lookedUp |-> TRUE,
              public_key |-> pk, secret_key |-> sk, host |-> host,
              st |-> Log(NewSt, "warning",
                         "Langfuse credentials not found")]
        ELSE [enabled |-> ~s4.exc, hasClient |-> ~s4.exc, lookedUp |-> TRUE,
              public_key |-> pk, secret_key |-> sk, host |-> host,
              st |-> s6]

\* ---------------------------------------------------------- score groups
\* evaluation_result: [accuracy, precision, recall, f1_score] as rationals
\* over 100, detailed_results a sequence of dicts, ragas_scores an optional
\* ordered dict (sequence of [key, val] with distinct keys).

Score(st, trace, name, value, faults) ==
    Do(st, "create_score", name, value, trace, faults)

_push_overall_scores_body(st, trace, er, faults) ==
    LET a == Score(st, trace, Name("fraud_detection_accuracy", 0, 0),
                   <<er.accuracy, 100>>, faults)
        b == Score(a, trace, Name("fraud_detection_precision", 0, 0),
                   <<er.precision, 100>>, faults)
        c == Score(b, trace, Name("fraud_detection_recall", 0, 0),
                   <<er.recall, 100>>, faults)
        d == Score(c, trace, Name("fraud_detection_f1", 0, 0),
                   <<er.f1_score, 100>>, faults)
    IN  Score(d, trace, Name("fraud_detection_overall_quality", 0, 0),
              <<er.accuracy + er.precision + er.recall + er.f1_score, 400>>,
              faults)

\* variant of _push_overall_scores without its try/except
_push_overall_scores_unprotected(enabled, st, trace, er, faults) ==
    IF ~enabled \/ st.exc THEN st
    ELSE _push_overall_scores_body(st, trace, er, faults)

\* LangfuseTracer._push_overall_scores
_push_overall_scores(enabled, st, trace, er, faults) ==
    IF ~enabled \/ st.exc THEN st
    ELSE Catch(_push_overall_scores_body(st, trace, er, faults),
               "Failed to push overall scores")

\* one iteration of the loop of _push_case_scores (lines 214-231); i is the
\* 0-based index of enumerate
CaseIteration(st, trace, i, result, faults) ==
    LET case_correct == DictGet(result, "overall_correct", FALSE)
        a == Score(st, trace, Name("case_accuracy", i + 1, 0),
                   IF case_correct THEN <<1, 1>> ELSE <<0, 1>>, faults)
    IN  IF "llm_judgment" \in DOMAIN result
        THEN Score(a, trace, Name("case_llm_judge_quality", i + 1, 0),
                   <<DictGet(result["llm_judgment"], "overall_quality", 0), 10>>,
                   faults)
        ELSE a

RECURSIVE CaseLoop(_, _, _, _, _)
CaseLoop(st, trace, pairs, k, faults) ==
    IF k > Len(pairs) THEN st
    ELSE CaseLoop(CaseIteration(st, trace, k - 1, pairs[k][1], faults),
                  trace, pairs, k + 1, faults)

\* variant of line 213 that walks all of detailed_results
PairAll(results, test_cases) ==
    [i \in 1..Len(results) |->
        <<results[i], IF i <= Len(test_cases) THEN test_cases[i] ELSE None>>]

\* line 213: zip(evaluation_result.detailed_results, test_cases)
CasePairs(results, test_cases) == Zip(results, test_cases)

\* LangfuseTracer._push_case_scores
_push_case_scores(enabled, st, trace, er, test_cases, faults) ==
    IF ~enabled \/ st.exc THEN st
    ELSE Catch(CaseLoop(st, trace, CasePairs(er.detailed_results, test_cases),
                        1, faults),
               "Failed to push case scores")

\* variant of line 243 that accepts float only
IsFloatOnly(score) == IsInstance(score, {"float"})

\* line 243: isinstance(score, (int, float))
IsNumeric(score) == IsInstance(score, {"int", "float"})

RECURSIVE RagasLoop(_, _, _, _, _)
RagasLoop(st, trace, items, k, faults) ==
    IF k > Len(items) THEN st
    ELSE RagasLoop(IF IsNumeric(items[k].val)
                   THEN Score(st, trace, Name("ragas", 0, items[k].key),
                              Float(items[k].val), faults)
                   ELSE st,
                   trace, items, k + 1, faults)

\* LangfuseTracer._push_ragas_scores
_push_ragas_scores(enabled, st, trace, ragas_scores, faults) ==
    IF ~enabled \/ st.exc THEN st
    ELSE Catch(RagasLoop(st, trace, ragas_scores.items, 1, faults),
               "Failed to push RAGAS scores")

\* truthiness of evaluation_result.ragas_scores (line 134): None and the
\* empty dict are falsy
RagasTruthy(ragas_scores) ==
    ~ragas_scores.isNone /\ Len(ragas_scores.items) > 0

\* ------------------------------------------------------ public operations
\* What the caller of an operation observes: the returned value ("None" or
\* a trace id), the backend calls in order, the log records in order, and
\* whether an exception left the operation.
Outcome(ret, st) ==
    [ret |-> IF st.exc THEN "None" ELSE ret, calls |-> st.calls,
     logs |-> st.logs, escaped |-> st.exc]

Nothing == Outcome("None", NewSt)

\* variant of lines 147 and 306 without the flush
NoFlush(st, faults) == st

\* self.client.flush() (lines 147 and 306)
FlushStep(st, faults) == Do(st, "flush", NoName, NoValue, "", faults)

\* the body of the `with` block of trace_evaluation_run (lines 121-144)
RunSpanBody(self, st, a) ==
    LET u == Do(st, "update_current_trace",
                Name("fraud_detection_evaluation", 0, 0), NoValue, "", a.faults)
        o == _push_overall_scores(self.enabled, u, a.tid, a.er, a.faults)
        c == _push_case_scores(self.enabled, o, a.tid, a.er, a.test_cases,
                               a.faults)
        r == IF RagasTruthy(a.er.ragas_scores)
             THEN _push_ragas_scores(self.enabled, c, a.tid,
                                     a.er.ragas_scores, a.faults)
             ELSE c
    IN  Do(r, "span.update", NoName, NoValue, "", a.faults)

\* the try block of trace_evaluation_run and its handler (lines 105-154)
RunTry(self, a) ==
    LET t == Do(NewSt, "create_trace_id", NoName, NoValue, a.tid, a.faults)
        s == Do(t, "start_as_current_span",
                Name("fraud_detection_evaluation", 0, 0), NoValue, "", a.faults)
        w == IF s.exc THEN s ELSE ExitSpan(RunSpanBody(self, s, a))
        f == FlushStep(w, a.faults)
        g == IF f.exc THEN f ELSE Log(f, "info", "Evaluation trace created")
    IN  Outcome(IF f.exc THEN "None" ELSE a.tid,
                Catch(g, "Failed to create evaluation trace"))

\* variant of trace_evaluation_run without the guard of lines 102-103
trace_evaluation_run_unguarded(self, a) == RunTry(self, a)

\* LangfuseTracer.trace_evaluation_run
trace_evaluation_run(self, a) ==
    IF ~self.enabled THEN Nothing ELSE RunTry(self, a)

\* the try block of trace_single_case_evaluation (lines 273-312); a.prediction
\* is a dict, a.test_case a record with expected_fraud_flag
SingleTry(self, a) ==
    LET predicted  == DictGet(a.prediction, "fraud_flag", FALSE)
        is_correct == predicted = a.test_case.expected_fraud_flag
        t == Do(NewSt, "create_trace_id", NoName, NoValue, a.tid, a.faults)
        s == Do(t, "start_as_current_span",
                Name("single_case_evaluation", 0, 0), NoValue, "", a.faults)
        u == Do(s, "update_current_trace",
                Name("single_case_evaluation", 0, 0), NoValue, "", a.faults)
        c == Score(u, a.tid, Name("case_accuracy", 0, 0),
                   IF is_correct THEN <<1, 1>> ELSE <<0, 1>>, a.faults)
        b == Do(c, "span.update", NoName, NoValue, "", a.faults)
        w == IF s.exc THEN s ELSE ExitSpan(b)
        f == FlushStep(w, a.faults)
    IN  Outcome(IF f.exc THEN "None" ELSE a.tid,
                Catch(f, "Failed to create single case trace"))

\* LangfuseTracer.trace_single_case_evaluation
trace_single_case_evaluation(self, a) ==
    IF ~self.enabled THEN Nothing ELSE SingleTry(self, a)

\* LangfuseTracer.close
close(self, faults) ==
    IF self.enabled /\ self.hasClient
    THEN LET d == Do(NewSt, "shutdown", NoName, NoValue, "", faults)
             g == IF d.exc THEN d
                  ELSE Log(d, "info", "Langfuse client shut down successfully")
         IN  Outcome("None", Catch(g, "Error shutting down Langfuse client"))
    ELSE Nothing

\* trace_evaluation (lines 360-369) with the shared instance being `self`
trace_evaluation(self, a) ==
    IF self.enabled THEN trace_evaluation_run(self, a) ELSE Nothing

\* ------------------------------------------------------------ input sets
SeqsUpTo(S, n) == UNION {[1..k -> S] : k \in 0..n}

\* the subsets of P with at most k elements
RECURSIVE KSubsets(_, _)
KSubsets(P, k) ==
    IF k = 0 THEN {{}}
    ELSE LET prev == KSubsets(P, k - 1)
         IN  prev \cup {q \cup {x} : q \in prev, x \in P}

EnvFlagValues ==
    {None, Some(TrueStr), Some(<<"T","r","u","e">>), Some(<<"T","R","U","E">>),
     Some(<<"f","a","l","s","e">>), Some(<<"1">>), Some(<<>>)}

Environs ==
    [ENABLE_LANGFUSE_TRACING : EnvFlagValues,
     LANGFUSE_PUBLIC_KEY : {None, Some(""), Some("pk-env")},
     LANGFUSE_SECRET_KEY : {None, Some(""), Some("sk-env")},
     LANGFUSE_HOST : {None, Some("https://host-env")}]

CtorParams ==
    [public_key : {None, Some(""), Some("pk-arg")},
     secret_key : {None, Some(""), Some("sk-arg")},
     host : {None, Some("https://host-arg")},
     enabled : {None, Some(TRUE), Some(FALSE)}]

CtorFaults ==
    KSubsets({[call |-> "os.environ.__setitem__", n |-> k] : k \in 1..3}
             \cup {[call |-> "langfuse.get_client", n |-> 1]}, 1)

TraceIds == {"trace-a", "trace-b"}

DetailKinds ==
    {[overall_correct |-> TRUE],
     [overall_correct |-> FALSE, llm_judgment |-> [overall_quality |-> 7]],
     [llm_judgment |-> <<>>]}

RagasValues ==
    {[type |-> "float", v |-> <<1, 2>>], [type |-> "int", v |-> <<2, 1>>],
     [type |-> "bool", v |-> <<1, 1>>], [type |-> "str", v |-> <<0, 0>>],
     [type |-> "NoneType", v |-> <<0, 0>>], [type |-> "dict", v |-> <<0, 0>>]}

RagasNone == [isNone |-> TRUE, items |-> <<>>]

RagasDict(vals) ==
    [isNone |-> FALSE, items |-> [i \in DOMAIN vals |-> [key |-> i, val |-> vals[i]]]]

RagasDicts == {RagasDict(vals) : vals \in SeqsUpTo(RagasValues, MaxRagas)}

\* one numeric and one string entry
RagasMixed ==
    RagasDict(<<[type |-> "float", v |-> <<1, 2>>], [type |-> "str", v |-> <<0, 0>>]>>)

RagasTwoNumbers ==
    RagasDict(<<[type |-> "float", v |-> <<1, 2>>], [type |-> "int", v |-> <<2, 1>>]>>)

TestCases(n) == [i \in 1..n |-> [title |-> i, expected_fraud_flag |-> TRUE]]

EvalResult(details, ragas) ==
    [accuracy |-> 80, precision |-> 75, recall |-> 90, f1_score |-> 82,
     detailed_results |-> details, ragas_scores |-> ragas]

NonScoreCalls ==
    {"create_trace_id", "start_as_current_span", "update_current_trace",
     "span.update", "flush"}

FaultPoints(nscores) ==
    {[call |-> c, n |-> 1] : c \in NonScoreCalls}
    \cup {[call |-> "create_score", n |-> k] : k \in 1..nscores}

EnabledSelf == [enabled |-> TRUE, hasClient |-> TRUE]

\* the create_score calls of a run in which nothing raises
NScores(er, test_cases) ==
    Occurrences(RunTry(EnabledSelf, [er |-> er, test_cases |-> test_cases,
                                     tid |-> "trace-a", faults |-> {}]),
                "create_score")

\* evaluation data of runs in which nothing raises: every pairing of
\* detailed_results and test_cases lengths, and every ragas_scores mapping
CaseData ==
    {[er |-> EvalResult(d, r), test_cases |-> TestCases(n)] :
        d \in SeqsUpTo(DetailKinds, MaxResults), n \in 0..MaxCases,
        r \in {RagasNone, RagasMixed}}

RagasData ==
    {[er |-> EvalResult(d, r), test_cases |-> TestCases(1)] :
        d \in SeqsUpTo(DetailKinds, 1), r \in RagasDicts}

\* evaluation data of runs in which backend calls raise
FaultData ==
    {[er |-> EvalResult(<<>>, RagasNone), test_cases |-> <<>>],
     [er |-> EvalResult(<<[overall_correct |-> FALSE,
                          llm_judgment |-> [overall_quality |-> 7]],
                         [overall_correct |-> TRUE]>>, RagasTwoNumbers),
      test_cases |-> TestCases(2)]}

RunArgs ==
    {[er |-> x.er, test_cases |-> x.test_cases, tid |-> t, faults |-> {}] :
        x \in CaseData \cup RagasData, t \in TraceIds}
    \cup UNION {
        {[er |-> x.er, test_cases |-> x.test_cases, tid |-> t, faults |-> f] :
            t \in TraceIds,
            f \in KSubsets(FaultPoints(NScores(x.er, x.test_cases)), MaxFaults)}
        : x \in FaultData}

SingleArgs ==
    [test_case : {[title |-> 1, expected_fraud_flag |-> b] : b \in BOOLEAN},
     prediction : {<<>>} \cup {[fraud_flag |-> b] : b \in BOOLEAN},
     tid : TraceIds,
     faults : KSubsets(FaultPoints(1), MaxFaults)]

CloseFaults == KSubsets({[call |-> "shutdown", n |-> 1]}, 1)

\* ------------------------------------------------------------------ state
VARIABLES
    LANGFUSE_AVAILABLE, \* module constant set at import (lines 22-26)
    pc,                 \* the caller: "new", "idle" or "returned"
    self,               \* the tracer's attributes enabled and client
    ctorEnabled,        \* the `enabled` argument the tracer was built with
    clientCalled,       \* names of the backend calls made on this tracer
    args,               \* arguments of the operation that just returned
    last,               \* what that operation did and returned
    _global_tracer,     \* module global: 0 is None, else an instance id
    created,            \* LangfuseTracer instances built by the accessor
    closed,             \* instances the accessor called close() on
    hist,               \* the last two accessor calls, oldest first
    tpc, seen, made, ret, ncalls   \* per thread inside get_langfuse_tracer

tracerVars == <<LANGFUSE_AVAILABLE, pc, self, ctorEnabled, clientCalled, args, last>>
accessorVars == <<closed, hist>>
sharedVars == <<_global_tracer, created>>
threadVars == <<tpc, seen, made, ret, ncalls>>
vars == <<tracerVars, sharedVars, accessorVars, threadVars>>

Threads == 1..NThreads

NoArgs == [op |-> "none"]
NoLast == [op |-> "none", ret |-> "None", calls |-> <<>>, logs |-> <<>>,
           escaped |-> FALSE, lookedUp |-> FALSE]

TracerInit ==
    /\ LANGFUSE_AVAILABLE \in BOOLEAN
    /\ pc = "new"
    /\ self = [enabled |-> FALSE, hasClient |-> FALSE]
    /\ ctorEnabled = None
    /\ clientCalled = {}
    /\ args = NoArgs
    /\ last = NoLast

AccessorInit ==
    /\ _global_tracer = 0
    /\ created = 0
    /\ closed = {}
    /\ hist = <<>>

ThreadInit ==
    /\ tpc = [t \in Threads |-> "idle"]
    /\ seen = [t \in Threads |-> 0]
    /\ made = [t \in Threads |-> 0]
    /\ ret = [t \in Threads |-> 0]
    /\ ncalls = [t \in Threads |-> 0]

Init == TracerInit /\ AccessorInit /\ ThreadInit

CallNames(calls) == {calls[i].call : i \in DOMAIN calls}

Returned(op, a, o) ==
    /\ pc' = "returned"
    /\ args' = a
    /\ last' = [op |-> op, ret |-> o.ret, calls |-> o.calls, logs |-> o.logs,
                escaped |-> o.escaped, lookedUp |-> FALSE]
    /\ clientCalled' = clientCalled \cup CallNames(o.calls)
    /\ UNCHANGED <<LANGFUSE_AVAILABLE, self, ctorEnabled>>
    /\ UNCHANGED <<sharedVars, accessorVars, threadVars>>

\* LangfuseTracer(public_key, secret_key, host, enabled)
Construct ==
    /\ pc = "new"
    /\ \E p \in CtorParams, env \in Environs, f \in CtorFaults :
        LET o == LangfuseTracer_init(LANGFUSE_AVAILABLE, p, env, f)
        IN  /\ self' = [enabled |-> o.enabled, hasClient |-> o.hasClient]
            /\ ctorEnabled' = p.enabled
            /\ args' = [op |-> "__init__", p |-> p, env |-> env, faults |-> f]
            /\ last' = [op |-> "__init__", ret |-> "None", calls |-> o.st.calls,
                        logs |-> o.st.logs, escaped |-> o.st.exc,
                        lookedUp |-> o.lookedUp]
    /\ pc' = "returned"
    /\ UNCHANGED <<LANGFUSE_AVAILABLE, clientCalled>>
    /\ UNCHANGED <<sharedVars, accessorVars, threadVars>>

TraceEvaluationRun ==
    /\ pc = "idle"
    /\ \E a \in RunArgs :
        Returned("trace_evaluation_run", a, trace_evaluation_run(self, a))

TraceSingleCaseEvaluation ==
    /\ pc = "idle"
    /\ \E a \in SingleArgs :
        Returned("trace_single_case_evaluation", a,
                 trace_single_case_evaluation(self, a))

Close ==
    /\ pc = "idle"
    /\ \E f \in CloseFaults :
        Returned("close", [faults |-> f], close(self, f))

TraceEvaluation ==
    /\ pc = "idle"
    /\ \E a \in RunArgs :
        Returned("trace_evaluation", a, trace_evaluation(self, a))

\* the caller takes the value returned at lines 103, 150, 154, 308, 312 or
\* 369 and goes on to its next call
Resume ==
    /\ pc = "returned"
    /\ pc' = "idle"
    /\ args' = NoArgs
    /\ last' = NoLast
    /\ UNCHANGED <<LANGFUSE_AVAILABLE, self, ctorEnabled, clientCalled>>
    /\ UNCHANGED <<sharedVars, accessorVars, threadVars>>

Next ==
    \/ Construct
    \/ TraceEvaluationRun
    \/ TraceSingleCaseEvaluation
    \/ Close
    \/ TraceEvaluation
    \/ Resume

Spec == Init /\ [][Next]_vars

\* ------------------------------------------- the accessor, single thread
\* instances handed to set_langfuse_tracer by the caller (negative ids);
\* 0 is None and positive ids are instances the accessor constructed
CallerInstances == {-1, -2}

\* variant of get_langfuse_tracer without the test of line 331
GetAlwaysConstructing(g, n) ==
    [global |-> n + 1, created |-> n + 1, ret |-> n + 1, constructed |-> TRUE]

\* get_langfuse_tracer run to completion: the global and the number of
\* constructed instances afterwards, and the returned instance
GetLangfuseTracer(g, n) ==
    IF g = 0
    THEN [global |-> n + 1, created |-> n + 1, ret |-> n + 1, constructed |-> TRUE]
    ELSE [global |-> g, created |-> n, ret |-> g, constructed |-> FALSE]

Remember(h, call) == IF Len(h) < 2 THEN Append(h, call) ELSE <<h[2], call>>

get_langfuse_tracer ==
    /\ _global_tracer # 0 \/ created < MaxCreated
    /\ LET o == GetLangfuseTracer(_global_tracer, created)
       IN  /\ _global_tracer' = o.global
           /\ created' = o.created
           /\ hist' = Remember(hist, [op |-> "get", arg |-> 0, ret |-> o.ret,
                                      before |-> _global_tracer,
                                      constructed |-> o.constructed])
    /\ UNCHANGED <<closed, tracerVars, threadVars>>

set_langfuse_tracer ==
    /\ \E tracer \in {0} \cup CallerInstances \cup 1..created :
        /\ _global_tracer' = tracer
        /\ hist' = Remember(hist, [op |-> "set", arg |-> tracer, ret |-> 0,
                                   before |-> _global_tracer,
                                   constructed |-> FALSE])
    /\ UNCHANGED <<created, closed, tracerVars, threadVars>>

NextAccessor == get_langfuse_tracer \/ set_langfuse_tracer

SpecAccessor == Init /\ [][NextAccessor]_vars

\* ------------------------------------- the accessor under thread switches
\* get_langfuse_tracer as the interpreter runs it: the read of the global
\* for the test (line 331), the constructor call and the store (line 332),
\* and the read of the global for the return (line 333) are separate steps
\* between which another thread may run.

\* variant of line 332 that tests the global again before constructing
ConstructUnlessSet(g, n) ==
    IF g # 0 THEN [made |-> g, created |-> n]
    ELSE [made |-> n + 1, created |-> n + 1]

\* line 332, right-hand side: LangfuseTracer() is called whatever the
\* global holds by now
ConstructStep(g, n) == [made |-> n + 1, created |-> n + 1]

Call(t) ==
    /\ tpc[t] \in {"idle", "done"}
    /\ ncalls[t] < MaxCalls
    /\ ncalls' = [ncalls EXCEPT ![t] = @ + 1]
    /\ tpc' = [tpc EXCEPT ![t] = "test"]
    /\ seen' = [seen EXCEPT ![t] = 0]
    /\ made' = [made EXCEPT ![t] = 0]
    /\ ret' = [ret EXCEPT ![t] = 0]
    /\ UNCHANGED <<sharedVars, accessorVars, tracerVars>>

TestGlobal(t) ==
    /\ tpc[t] = "test"
    /\ seen' = [seen EXCEPT ![t] = _global_tracer]
    /\ tpc' = [tpc EXCEPT ![t] = IF _global_tracer = 0 THEN "construct" ELSE "return"]
    /\ UNCHANGED <<made, ret, ncalls, sharedVars, accessorVars, tracerVars>>

ConstructTracer(t) ==
    /\ tpc[t] = "construct"
    /\ LET o == ConstructStep(_global_tracer, created)
       IN  /\ made' = [made EXCEPT ![t] = o.made]
           /\ created' = o.created
    /\ tpc' = [tpc EXCEPT ![t] = "store"]
    /\ UNCHANGED <<_global_tracer, seen, ret, ncalls, accessorVars, tracerVars>>

StoreGlobal(t) ==
    /\ tpc[t] = "store"
    /\ _global_tracer' = made[t]
    /\ tpc' = [tpc EXCEPT ![t] = "return"]
    /\ UNCHANGED <<created, seen, made, ret, ncalls, accessorVars, tracerVars>>

ReturnGlobal(t) ==
    /\ tpc[t] = "return"
    /\ ret' = [ret EXCEPT ![t] = _global_tracer]
    /\ tpc' = [tpc EXCEPT ![t] = "done"]
    /\ UNCHANGED <<seen, made, ncalls, sharedVars, accessorVars, tracerVars>>

NextThreads ==
    \E t \in Threads :
        \/ Call(t)
        \/ TestGlobal(t)
        \/ ConstructTracer(t)
        \/ StoreGlobal(t)
        \/ ReturnGlobal(t)

SpecThreads == Init /\ [][NextThreads]_vars

\* ------------------------------------------------------------ properties
RaisedIdx == {i \in DOMAIN last.calls : last.calls[i].raised}

Errors == Cardinality({i \in DOMAIN last.logs : last.logs[i].level = "error"})

IsReport ==
    /\ pc = "returned"
    /\ last.op \in {"trace_evaluation_run", "trace_single_case_evaluation"}
    /\ self.enabled

IsRun == pc = "returned" /\ last.op = "trace_evaluation_run" /\ self.enabled

IndexOf(call) == {i \in DOMAIN last.calls : last.calls[i].call = call}

\* C1: a tracer constructed with enabled=False never calls the backend
\* client, stays disabled, and each of trace_evaluation_run,
\* trace_single_case_evaluation and close returns None.
C1_DisabledTracerIsInert ==
    (pc # "new" /\ ctorEnabled = Some(FALSE)) =>
        /\ ~self.enabled
        /\ clientCalled = {}
        /\ last.op \in {"trace_evaluation_run", "trace_single_case_evaluation",
                        "close"}
              => last.ret = "None" /\ last.calls = <<>>

C1_Witness ==
    /\ ctorEnabled = Some(FALSE)
    /\ pc = "returned"
    /\ last.op = "trace_evaluation_run"
    /\ Len(args.er.detailed_results) > 0
    /\ LANGFUSE_AVAILABLE

\* C2: no exception leaves the constructor, trace_evaluation_run,
\* trace_single_case_evaluation, close or trace_evaluation, whichever
\* backend calls raise.
C2_NoExceptionEscapes == ~last.escaped

C2_Witness ==
    /\ pc = "returned"
    /\ last.op = "trace_evaluation"
    /\ \E i \in RaisedIdx : last.calls[i].call = "flush"
    /\ ~last.escaped

\* a raise of create_score inside a score group of trace_evaluation_run is
\* handled by that group
Contained(i) ==
    last.op = "trace_evaluation_run" /\ last.calls[i].call = "create_score"

SpanEntered ==
    \E i \in IndexOf("start_as_current_span") : ~last.calls[i].raised

FlushedAfterSpanClosed ==
    \E i \in IndexOf("span.__exit__") : \E j \in IndexOf("flush") : i < j

\* C4 as stated: on every path on which the span was entered, flush is
\* called after the span is closed and before the call returns.
C4_AlwaysFlushed == (IsReport /\ SpanEntered) => FlushedAfterSpanClosed

\* C4 amended: on every path on which the span was entered it is closed
\* before the call returns; flush is called, once, after the span is closed
\* and as the last backend call, exactly when no call inside the span raised
\* outside a score group of trace_evaluation_run; so every call that returns
\* a trace id has flushed.
C4_FlushedUnlessSpanBodyRaised ==
    (IsReport /\ SpanEntered) =>
        /\ Cardinality(IndexOf("span.__exit__")) = 1
        /\ FlushedAfterSpanClosed <=>
              ~\E i \in RaisedIdx : last.calls[i].call # "flush" /\ ~Contained(i)
        /\ \A j \in IndexOf("flush") : j = Len(last.calls)
        /\ last.ret # "None" => FlushedAfterSpanClosed

C4_Witness ==
    /\ IsRun
    /\ SpanEntered
    /\ \E i \in RaisedIdx : Contained(i)
    /\ FlushedAfterSpanClosed
    /\ last.ret # "None"

IsInit == pc = "returned" /\ last.op = "__init__"

\* the value of ENABLE_LANGFUSE_TRACING spells "true" in any letter case
SpellsTrue(v) ==
    /\ Len(v) = 4
    /\ v[1] \in {"t", "T"} /\ v[2] \in {"r", "R"}
    /\ v[3] \in {"u", "U"} /\ v[4] \in {"e", "E"}

\* the requested flag: the parameter, else the environment, else true
RequestedFlag ==
    IF args.p.enabled # None THEN args.p.enabled[1]
    ELSE IF args.env.ENABLE_LANGFUSE_TRACING = None THEN TRUE
    ELSE SpellsTrue(args.env.ENABLE_LANGFUSE_TRACING[1])

NonEmpty(o) == o # None /\ o # Some("")

KeysResolve ==
    /\ NonEmpty(args.p.public_key) \/ NonEmpty(args.env.LANGFUSE_PUBLIC_KEY)
    /\ NonEmpty(args.p.secret_key) \/ NonEmpty(args.env.LANGFUSE_SECRET_KEY)

\* C5: construction completes, and the tracer is enabled exactly when the
\* requested flag is true, the library is available, both keys resolve to
\* non-empty values and client initialization did not raise; when requested
\* and available do not both hold there is no credential lookup, no
\* environment write and no client initialization.
C5_EnabledAfterConstruction ==
    IsInit =>
        /\ ~last.escaped
        /\ self.enabled <=>
              /\ RequestedFlag
              /\ LANGFUSE_AVAILABLE
              /\ KeysResolve
              /\ RaisedIdx = {}
        /\ ~LANGFUSE_AVAILABLE => ~self.enabled
        /\ ~(RequestedFlag /\ LANGFUSE_AVAILABLE) =>
              ~last.lookedUp /\ last.calls = <<>>

C5_Witness ==
    /\ IsInit
    /\ self.enabled
    /\ args.p.enabled = None
    /\ args.env.ENABLE_LANGFUSE_TRACING = Some(<<"T","R","U","E">>)
    /\ args.p.public_key = None
    /\ IndexOf("langfuse.get_client") # {}

IsCaseAccuracy(e) == e.call = "create_score" /\ e.name.base = "case_accuracy"

IsRagas(e) == e.call = "create_score" /\ e.name.base = "ragas"

\* C6: in a run in which nothing raises, the per-case accuracy scores are
\* case_1_accuracy .. case_k_accuracy in order with
\* k = min(len(detailed_results), len(test_cases)); the i-th is 1.0 when
\* the i-th detailed result's overall_correct is true and 0.0 when it is
\* false or absent; nothing is logged as an error.
C6_CaseScoresPairShorter ==
    (IsRun /\ RaisedIdx = {}) =>
        LET acc == SelectSeq(last.calls, IsCaseAccuracy)
            res == args.er.detailed_results
        IN  /\ Len(acc) = Min(Len(res), Len(args.test_cases))
            /\ \A i \in DOMAIN acc :
                /\ acc[i].name.idx = i
                /\ acc[i].trace = args.tid
                /\ acc[i].value =
                     IF "overall_correct" \in DOMAIN res[i]
                        /\ res[i]["overall_correct"]
                     THEN <<1, 1>> ELSE <<0, 1>>
            /\ Errors = 0
            /\ ~last.escaped

C6_Witness ==
    /\ IsRun
    /\ RaisedIdx = {}
    /\ Len(args.er.detailed_results) = 3
    /\ Len(args.test_cases) = 5
    /\ Len(SelectSeq(last.calls, IsCaseAccuracy)) = 3
    /\ "overall_correct" \notin DOMAIN args.er.detailed_results[2]

RagasKeysEmitted ==
    LET rg == SelectSeq(last.calls, IsRagas)
    IN  [i \in DOMAIN rg |-> rg[i].name.key]

RagasKeysOfTypes(types) ==
    LET Has(it) == it.val.type \in types
        sel == SelectSeq(args.er.ragas_scores.items, Has)
    IN  [i \in DOMAIN sel |-> sel[i].key]

\* C7 as stated: in a run in which nothing raises, one ragas_<key> score is
\* emitted per key whose value is an int or a float, and none for a key
\* whose value is a string, a boolean, None or a mapping.
C7_NoScoreForBoolean ==
    (IsRun /\ RaisedIdx = {}) =>
        /\ RagasKeysEmitted = RagasKeysOfTypes({"int", "float"})
        /\ Errors = 0

\* C7 amended: in a run in which nothing raises, one ragas_<key> score is
\* emitted, in mapping order, per key whose value is an int, a float or a
\* boolean (a boolean is an int instance and is emitted as 1.0 or 0.0), and
\* none for a key whose value is a string, None or a mapping; an absent or
\* empty mapping emits none; nothing is logged as an error.
C7_ScorePerIntFloatBool ==
    (IsRun /\ RaisedIdx = {}) =>
        /\ RagasKeysEmitted = RagasKeysOfTypes({"int", "float", "bool"})
        /\ \A e \in {last.calls[i] : i \in DOMAIN last.calls} :
              IsRagas(e) =>
                 /\ e.trace = args.tid
                 /\ \E k \in DOMAIN args.er.ragas_scores.items :
                       LET it == args.er.ragas_scores.items[k]
                       IN  it.key = e.name.key /\ it.val.v = e.value
        /\ Errors = 0
        /\ ~last.escaped

C7_Witness ==
    /\ IsRun
    /\ RaisedIdx = {}
    /\ Len(args.er.ragas_scores.items) = 2
    /\ args.er.ragas_scores.items[1].val.type = "str"
    /\ args.er.ragas_scores.items[2].val.type = "bool"
    /\ RagasKeysEmitted = <<2>>

Group(e) ==
    IF e.call # "create_score" THEN "none"
    ELSE IF e.name.base = "ragas" THEN "ragas"
    ELSE IF e.name.base \in {"case_accuracy", "case_llm_judge_quality"}
    THEN "case"
    ELSE "overall"

Rank(e) ==
    CASE e.call = "create_trace_id" -> 0
      [] e.call = "start_as_current_span" -> 1
      [] e.call = "update_current_trace" -> 2
      [] Group(e) = "overall" -> 3
      [] Group(e) = "case" -> 4
      [] Group(e) = "ragas" -> 5
      [] e.call = "span.update" -> 6
      [] e.call = "span.__exit__" -> 7
      [] OTHER -> 8

GroupIdx(g) == {i \in DOMAIN last.calls : Group(last.calls[i]) = g}

\* C10: in a run in which only create_score calls raise, a raise ends the
\* score group it occurs in (no later score of that group is attempted),
\* every later group is still attempted in the order overall, per-case,
\* RAGAS, then the span output is updated, the span closed, flush called,
\* and the call returns the trace id created at its start.
C10_ScoreFailureStaysInGroup ==
    (IsRun /\ \A i \in RaisedIdx : last.calls[i].call = "create_score") =>
        /\ \A g \in {"overall", "case", "ragas"} :
              \A i \in GroupIdx(g) : \A j \in GroupIdx(g) :
                  last.calls[i].raised => j <= i
        /\ GroupIdx("overall") # {}
        /\ Min(Len(args.er.detailed_results), Len(args.test_cases)) > 0
              => GroupIdx("case") # {}
        /\ RagasKeysOfTypes({"int", "float", "bool"}) # <<>>
              => GroupIdx("ragas") # {}
        /\ \A i \in DOMAIN last.calls : \A j \in DOMAIN last.calls :
              i < j => Rank(last.calls[i]) <= Rank(last.calls[j])
        /\ \A c \in {"create_trace_id", "start_as_current_span",
                     "update_current_trace", "span.update", "span.__exit__",
                     "flush"} : Cardinality(IndexOf(c)) = 1
        /\ last.logs[Len(last.logs)].level = "info"
        /\ last.ret = args.tid

C10_Witness ==
    /\ IsRun
    /\ \E i \in RaisedIdx :
          Group(last.calls[i]) = "overall" /\ Cardinality(GroupIdx("overall")) < 5
    /\ \E i \in RaisedIdx : Group(last.calls[i]) = "ragas"
    /\ GroupIdx("case") # {}
    /\ last.ret = args.tid

\* C8: in a single thread, get_langfuse_tracer constructs a tracer only
\* when no shared instance is held, returns the instance most recently
\* installed (by its own lazy construction or by set_langfuse_tracer),
\* returns the identical instance on consecutive calls, and neither
\* function calls close on any instance.
C8_AccessorReusesInstance ==
    /\ closed = {}
    /\ \A i \in DOMAIN hist :
          hist[i].op = "get" =>
             /\ hist[i].constructed <=> hist[i].before = 0
             /\ hist[i].ret # 0
             /\ ~hist[i].constructed => hist[i].ret = hist[i].before
             /\ hist[i].constructed =>
                   hist[i].ret \notin CallerInstances \cup {hist[i].before}
             /\ i = Len(hist) => _global_tracer = hist[i].ret
             /\ i > 1 =>
                   /\ hist[i].before =
                        IF hist[i-1].op = "set" THEN hist[i-1].arg
                        ELSE hist[i-1].ret
                   /\ hist[i-1].op = "get" => hist[i].ret = hist[i-1].ret

C8_Witness ==
    /\ Len(hist) = 2
    /\ hist[1].op = "get" /\ hist[1].constructed /\ hist[1].before = 0
    /\ hist[2].op = "get" /\ ~hist[2].constructed
    /\ hist[2].ret = hist[1].ret
    /\ created = 2

RacedOnNone(t) == tpc[t] \in {"store", "return", "done"} /\ seen[t] = 0

\* C9: the test of _global_tracer and its assignment are not atomic: every
\* thread whose test read None constructs an instance of its own, whatever
\* the global holds by then, so two threads that both read None construct
\* two distinct instances and the later store replaces the earlier one.
C9_TestAndStoreNotAtomic ==
    \A t \in Threads : \A u \in Threads :
        (t # u /\ RacedOnNone(t) /\ RacedOnNone(u)) =>
            /\ made[t] # 0 /\ made[u] # 0
            /\ made[t] # made[u]
            /\ created >= 2
            /\ _global_tracer \in 0..created
            /\ (tpc[t] = "done" /\ tpc[u] = "done") =>
                  /\ _global_tracer \in 1..created
                  /\ {ret[t], ret[u]} \subseteq 1..created

C9_Witness ==
    /\ tpc[1] = "done" /\ tpc[2] = "done"
    /\ seen[1] = 0 /\ seen[2] = 0
    /\ created = 2
    /\ ret[1] # ret[2]
    /\ ret[1] # _global_tracer
    /\ ret[2] = _global_tracer
====
